---- MODULE Spec2Model ----
(***************************************************************************)
(* Model of chrome/test/chromedriver/net/sync_websocket_impl.cc            *)
(* (SyncWebSocketImpl::Core): caller threads invoke Connect, Send and      *)
(* ReceiveNextMessage; one I/O context runs the posted tasks and the       *)
(* socket's callbacks; and of log_replay/devtools_log_reader.cc            *)
(* (DevToolsLogReader, LogEntry): GetNext reads the entries of a log.      *)
(***************************************************************************)
EXTENDS Integers, Sequences, FiniteSets, TLC

\* ---- bounds of the model -------------------------------------------------
MaxMsgs == 2        \* messages the socket delivers in one behaviour
MaxBudget == 1      \* largest remaining-time budget of a receive, in ticks
MaxTasks == 3       \* capacity of the I/O task queue when a call is issued
MaxItems == 2       \* items a log is written from

\* ---- program constants ---------------------------------------------------
MaxAttempts == 3    \* for (int i = 0; i < 3; i++)

Callers == {"c1", "c2"}      \* threads that call ReceiveNextMessage
Controllers == {"c1"}        \* the thread that also calls Connect and Send
NoOwner == "none"

VARIABLES
  is_connected_,    \* Core::is_connected_
  received_queue_,  \* Core::received_queue_ (sequence of message ids)
  lock_,            \* holder of Core::lock_, or NoOwner
  socket_,          \* Core::socket_ with the callback bound by Connect
  tasks,            \* FIFO of the tasks posted to the network task runner
  ioPc,             \* position of the I/O context inside OnConnectCompletedOnIO
  ioFault,          \* fault raised on the I/O context ("none" when running)
  pc,               \* position of every caller thread
  remaining,        \* Timeout::GetRemainingTime() of the receive in progress
  success,          \* the local |success| of the Connect/Send in progress
  event,            \* the local WaitableEvent: TRUE when signalled
  attempt,          \* loop variable i of Connect
  posted,           \* connect tasks posted by the Connect in progress
  ret,              \* what the step just taken returned to a caller, if anything
  nextMsg,          \* number of messages pushed so far
  delivered,        \* ids of the messages returned with Ok, in return order
  sendProduced,     \* what socket_->Send produced for the Send in progress
  staleDeref,       \* the step just taken used a handle of a returned call
  log_file,         \* DevToolsLogReader::log_file: the text of the log
  log_pos,          \* lines of log_file read so far (its get position)
  log_eof,          \* log_file.eof()
  log_calls         \* the GetNext calls made so far, with what they returned

vars == <<is_connected_, received_queue_, lock_, socket_, tasks, ioPc, ioFault,
          pc, remaining, success, event, attempt, posted, ret, nextMsg,
          delivered, sendProduced, staleDeref, log_file, log_pos, log_eof,
          log_calls>>

logVars == <<log_file, log_pos, log_eof, log_calls>>

NoSocket == [state |-> "null", owner |-> NoOwner, stale |-> FALSE]
NoRet == [who |-> NoOwner, op |-> "none", val |-> "none", msg |-> 0,
          waited |-> FALSE, left |-> 0, tries |-> 0, signalled |-> FALSE]

coreVars == <<is_connected_, received_queue_, socket_>>
callVars == <<success, event, attempt, posted, sendProduced>>
ghostVars == <<nextMsg, delivered>>

\* A step that returns nothing to a caller and uses no handle.
Quiet == ret' = NoRet /\ staleDeref' = FALSE

\* The transport after construction: no socket, not connected, nothing queued.
CoreInit ==
  /\ is_connected_ = FALSE
  /\ received_queue_ = <<>>
  /\ lock_ = NoOwner
  /\ socket_ = NoSocket
  /\ tasks = <<>>
  /\ ioPc = "idle"
  /\ ioFault = "none"
  /\ pc = [t \in Callers |-> "idle"]
  /\ remaining = [t \in Callers |-> 0]
  /\ success = [t \in Callers |-> FALSE]
  /\ event = [t \in Callers |-> FALSE]
  /\ attempt = [t \in Callers |-> 0]
  /\ posted = [t \in Callers |-> 0]
  /\ ret = NoRet
  /\ nextMsg = 0
  /\ delivered = <<>>
  /\ sendProduced = [t \in Callers |-> "none"]
  /\ staleDeref = FALSE

\* No log is being read: a reader over an empty file, never called.
NoLog ==
  /\ log_file = [lines |-> <<>>, nl |-> FALSE, items |-> <<>>]
  /\ log_pos = 0
  /\ log_eof = FALSE
  /\ log_calls = <<>>

Init == CoreInit /\ NoLog

\* ---- helpers ---------------------------------------------------------------
Waiters == {t \in Callers : pc[t] = "recv_wait"}

\* Mutant of Signal: the signal is lost.
Signal_Lost(p) == {p}

\* base::ConditionVariable::Signal(): revives one waiting thread, if any.
Signal(p) ==
  IF Waiters = {} THEN {p}
  ELSE {[p EXCEPT ![t] = "recv_woken"] : t \in Waiters}

\* PostTask: append to the task runner's queue.
PostTask(q, kind, t) == Append(q, [kind |-> kind, owner |-> t, stale |-> FALSE])

\* The frame of a returned call is gone: every handle still pointing into it
\* (in a queued task or in the socket's connect callback) is now stale.
MarkStaleTasks(q, t) ==
  [k \in 1..Len(q) |-> IF q[k].owner = t THEN [q[k] EXCEPT !.stale = TRUE] ELSE q[k]]

MarkStaleSocket(s, t) ==
  IF s.owner = t THEN [s EXCEPT !.stale = TRUE] ELSE s

\* The socket has run its connect callback and dropped it.
CallbackDone(s) == [s EXCEPT !.owner = NoOwner, !.stale = FALSE]

\* Mutant of PushBack: push_front.
PushBack_Front(q, m) == <<m>> \o q

\* received_queue_.push_back(message)
PushBack(q, m) == Append(q, m)

\* received_queue_.front() / received_queue_.pop_front()
Front(q) == Head(q)

\* Mutant of PopFront: the front is read but not removed.
PopFront_Keep(q) == q

PopFront(q) == Tail(q)

\* Mutant of LoopOutcome: the budget test is < instead of <=.
LoopOutcome_Strict(q, connected, rem) ==
  IF q = <<>> /\ connected
  THEN IF rem < 0 THEN "Timeout" ELSE "wait"
  ELSE IF ~connected THEN "Disconnected" ELSE "Ok"

\* One evaluation of the body of ReceiveNextMessage from the loop test on:
\* "wait" enters TimedWait, the other values are returned to the caller.
LoopOutcome(q, connected, rem) ==
  IF q = <<>> /\ connected
  THEN IF rem <= 0 THEN "Timeout" ELSE "wait"
  ELSE IF ~connected THEN "Disconnected" ELSE "Ok"

\* ---- caller threads: ReceiveNextMessage --------------------------------------
\* The call is made with a Timeout whose remaining time is b.
ReceiveNextMessage(t, b) ==
  /\ pc[t] = "idle"
  /\ pc' = [pc EXCEPT ![t] = "recv_enter"]
  /\ remaining' = [remaining EXCEPT ![t] = b]
  /\ Quiet
  /\ UNCHANGED <<coreVars, lock_, tasks, ioPc, ioFault, callVars, ghostVars>>
  /\ UNCHANGED logVars

\* base::AutoLock lock(lock_) on entry, and the re-acquisition of lock_ when
\* ConditionVariable::TimedWait returns.
AcquireLock(t) ==
  /\ pc[t] \in {"recv_enter", "recv_woken"}
  /\ lock_ = NoOwner
  /\ lock_' = t
  /\ pc' = [pc EXCEPT ![t] = IF pc[t] = "recv_enter" THEN "recv_loop"
                               ELSE "recv_reloop"]
  /\ Quiet
  /\ UNCHANGED <<coreVars, tasks, ioPc, ioFault, remaining, callVars, ghostVars>>
  /\ UNCHANGED logVars

\* A wait that keeps lock_ while the thread sleeps.
LockAfter_HeldInWait(out, t) == IF out = "wait" THEN t ELSE NoOwner

\* Who holds lock_ once the loop test has been acted on: on_update_event_ is a
\* ConditionVariable on lock_, so TimedWait releases it while the thread
\* sleeps; on a return the AutoLock's destructor releases it.
LockAfter(out, t) == NoOwner

\* The loop test and what follows it, with lock_ held; lock_ is released by
\* TimedWait or by the AutoLock's destructor on return.
ReceiveLoop(t) ==
  /\ pc[t] \in {"recv_loop", "recv_reloop"}
  /\ lock_ = t
  /\ lock_' = LockAfter(LoopOutcome(received_queue_, is_connected_,
                                    remaining[t]), t)
  /\ LET out == LoopOutcome(received_queue_, is_connected_, remaining[t]) IN
     CASE out = "wait" ->
            /\ pc' = [pc EXCEPT ![t] = "recv_wait"]
            /\ ret' = NoRet
            /\ UNCHANGED <<received_queue_, delivered, remaining>>
       [] out = "Ok" ->
            /\ pc' = [pc EXCEPT ![t] = "idle"]
            /\ ret' = [who |-> t, op |-> "recv", val |-> "Ok",
                       msg |-> Front(received_queue_),
                       waited |-> pc[t] = "recv_reloop", left |-> remaining[t],
                       tries |-> 0, signalled |-> FALSE]
            /\ delivered' = Append(delivered, Front(received_queue_))
            /\ received_queue_' = PopFront(received_queue_)
            /\ remaining' = [remaining EXCEPT ![t] = 0]
       [] OTHER ->
            /\ pc' = [pc EXCEPT ![t] = "idle"]
            /\ ret' = [who |-> t, op |-> "recv", val |-> out, msg |-> 0,
                       waited |-> pc[t] = "recv_reloop", left |-> remaining[t],
                       tries |-> 0, signalled |-> FALSE]
            /\ remaining' = [remaining EXCEPT ![t] = 0]
            /\ UNCHANGED <<received_queue_, delivered>>
  /\ staleDeref' = FALSE
  /\ UNCHANGED <<is_connected_, socket_, tasks, ioPc, ioFault, callVars, nextMsg>>
  /\ UNCHANGED logVars

\* TimedWait(next_wait) runs out: next_wait was the remaining budget.
WaitTimedOut(t) ==
  /\ pc[t] = "recv_wait"
  /\ remaining[t] = 0
  /\ pc' = [pc EXCEPT ![t] = "recv_woken"]
  /\ Quiet
  /\ UNCHANGED <<coreVars, lock_, tasks, ioPc, ioFault, remaining, callVars,
                 ghostVars>>
  /\ UNCHANGED logVars

\* A condition variable may wake without a signal.
SpuriousWakeup(t) ==
  /\ pc[t] = "recv_wait"
  /\ remaining[t] > 0
  /\ pc' = [pc EXCEPT ![t] = "recv_woken"]
  /\ Quiet
  /\ UNCHANGED <<coreVars, lock_, tasks, ioPc, ioFault, remaining, callVars,
                 ghostVars>>
  /\ UNCHANGED logVars

\* Time passes: every receive in progress loses one unit of its budget.
InReceive(t) ==
  pc[t] \in {"recv_enter", "recv_loop", "recv_wait", "recv_woken", "recv_reloop"}

Tick ==
  /\ \E t \in Callers : InReceive(t) /\ remaining[t] > 0
  /\ remaining' = [t \in Callers |->
                     IF InReceive(t) /\ remaining[t] > 0
                     THEN remaining[t] - 1 ELSE remaining[t]]
  /\ Quiet
  /\ UNCHANGED <<coreVars, lock_, tasks, ioPc, ioFault, pc, callVars, ghostVars>>
  /\ UNCHANGED logVars

\* ---- caller threads: Connect and Send ----------------------------------------
BoolStr(b) == IF b THEN "true" ELSE "false"

\* Mutant of RetryAgain: the loop runs twice (i < 2).
RetryAgain_Twice(i) == i + 1 < 2

\* The loop of Connect goes round again after a timed-out wait with loop
\* variable i (the i++ and the test i < 3).
RetryAgain(i) == i + 1 < MaxAttempts

\* Tasks a Connect in progress may still post.
Reserved(t) == IF pc[t] = "conn_wait" THEN MaxAttempts - posted[t] ELSE 0
ReservedAll == LET R[S \in SUBSET Controllers] ==
                     IF S = {} THEN 0
                     ELSE LET t == CHOOSE x \in S : TRUE IN Reserved(t) + R[S \ {t}]
               IN R[Controllers]

\* return success; the locals of the returning call die, and the handles that
\* point at them (in queued tasks, in a pending connect callback) go stale.
ReturnFrom(t, op) ==
  /\ pc' = [pc EXCEPT ![t] = "idle"]
  /\ ret' = [who |-> t, op |-> op, val |-> BoolStr(success[t]), msg |-> 0,
             waited |-> FALSE, left |-> 0, tries |-> posted[t],
             signalled |-> event[t]]
  /\ tasks' = MarkStaleTasks(tasks, t)
  /\ socket_' = MarkStaleSocket(socket_, t)
  /\ success' = [success EXCEPT ![t] = FALSE]
  /\ event' = [event EXCEPT ![t] = FALSE]
  /\ attempt' = [attempt EXCEPT ![t] = 0]
  /\ posted' = [posted EXCEPT ![t] = 0]
  /\ sendProduced' = [sendProduced EXCEPT ![t] = "none"]
  /\ staleDeref' = FALSE

\* Connect up to the first TimedWait: the locals and the first PostTask.
Connect(t) ==
  /\ pc[t] = "idle"
  /\ Len(tasks) + ReservedAll + MaxAttempts <= MaxTasks
  /\ success' = [success EXCEPT ![t] = FALSE]
  /\ event' = [event EXCEPT ![t] = FALSE]
  /\ attempt' = [attempt EXCEPT ![t] = 0]
  /\ posted' = [posted EXCEPT ![t] = 1]
  /\ tasks' = PostTask(tasks, "connect", t)
  /\ pc' = [pc EXCEPT ![t] = "conn_wait"]
  /\ Quiet
  /\ UNCHANGED <<coreVars, lock_, ioPc, ioFault, remaining, sendProduced,
                 ghostVars>>
  /\ UNCHANGED logVars

\* event.TimedWait(waitTime) returns true: break, return success.
ConnectSignalled(t) ==
  /\ pc[t] = "conn_wait"
  /\ event[t]
  /\ ReturnFrom(t, "connect")
  /\ UNCHANGED <<is_connected_, received_queue_, lock_, ioPc, ioFault,
                 remaining, ghostVars>>
  /\ UNCHANGED logVars

\* event.TimedWait(waitTime) returns false: next iteration, or return success.
ConnectTimedOut(t) ==
  /\ pc[t] = "conn_wait"
  /\ ~event[t]
  /\ IF RetryAgain(attempt[t])
     THEN /\ attempt' = [attempt EXCEPT ![t] = attempt[t] + 1]
          /\ posted' = [posted EXCEPT ![t] = posted[t] + 1]
          /\ tasks' = PostTask(tasks, "connect", t)
          /\ Quiet
          /\ UNCHANGED <<pc, socket_, success, event, sendProduced>>
     ELSE ReturnFrom(t, "connect")
  /\ UNCHANGED <<is_connected_, received_queue_, lock_, ioPc, ioFault,
                 remaining, ghostVars>>
  /\ UNCHANGED logVars

\* Send up to event.Wait().
Send(t) ==
  /\ pc[t] = "idle"
  /\ Len(tasks) + ReservedAll + 1 <= MaxTasks
  /\ success' = [success EXCEPT ![t] = FALSE]
  /\ event' = [event EXCEPT ![t] = FALSE]
  /\ sendProduced' = [sendProduced EXCEPT ![t] = "none"]
  /\ tasks' = PostTask(tasks, "send", t)
  /\ pc' = [pc EXCEPT ![t] = "send_wait"]
  /\ Quiet
  /\ UNCHANGED <<coreVars, lock_, ioPc, ioFault, remaining, attempt, posted,
                 ghostVars>>
  /\ UNCHANGED logVars

\* event.Wait() returns: return success.
SendSignalled(t) ==
  /\ pc[t] = "send_wait"
  /\ event[t]
  /\ ReturnFrom(t, "send")
  /\ UNCHANGED <<is_connected_, received_queue_, lock_, ioPc, ioFault,
                 remaining, ghostVars>>
  /\ UNCHANGED logVars

\* ---- the I/O context -----------------------------------------------------------
\* One thread runs the posted tasks in order and the callbacks of the socket.
\* The socket (WebSocket, behind the WebSocketListener interface) runs the
\* connect callback once per Connect, and delivers messages and one close
\* only between a successful connect and that close.
IOReady == ioFault = "none" /\ ioPc = "idle"

\* A write of |*success| (wr) and/or an |event->Signal()| (sig) through the
\* handles h bound into a task or callback.  Through live handles it reaches
\* the locals of the call that posted it.  Through stale handles it is
\* undefined: it lands in dead memory, or in the frame the owner thread has
\* built since at the same place, or the I/O context faults.
Deref(h, wr, val, sig) ==
  LET apply == /\ success' = IF wr THEN [success EXCEPT ![h.owner] = val]
                             ELSE success
               /\ event' = IF sig THEN [event EXCEPT ![h.owner] = TRUE]
                           ELSE event
  IN IF ~h.stale
     THEN apply /\ staleDeref' = FALSE /\ UNCHANGED ioFault
     ELSE /\ staleDeref' = TRUE
          /\ \/ UNCHANGED <<success, event, ioFault>>
             \/ /\ pc[h.owner] \in {"conn_wait", "send_wait"}
                /\ apply
                /\ UNCHANGED ioFault
             \/ /\ ioFault' = "stale_handle"
                /\ UNCHANGED <<success, event>>

\* A connect task that never takes the early return.
AlreadyConnected_Never(s, connected) == FALSE

\* if (socket_ && is_connected_) return;
AlreadyConnected(s, connected) == s.state # "null" /\ connected

\* The task at the head of the queue is ConnectOnIO.  socket_.reset destroys
\* the previous socket, and with it a connect callback it has not run yet.
ConnectOnIO ==
  /\ IOReady
  /\ tasks # <<>>
  /\ Head(tasks).kind = "connect"
  /\ lock_ = NoOwner
  /\ tasks' = Tail(tasks)
  /\ received_queue_' = <<>>
  /\ socket_' = IF AlreadyConnected(socket_, is_connected_) THEN socket_
                ELSE [state |-> "connecting", owner |-> Head(tasks).owner,
                      stale |-> Head(tasks).stale]
  /\ Quiet
  /\ UNCHANGED <<is_connected_, lock_, ioPc, ioFault, pc, remaining, callVars,
                 ghostVars>>
  /\ UNCHANGED logVars

\* The task at the head of the queue is SendOnIO; ok is what the socket's
\* Send returns.  With no socket, socket_->Send dereferences null.
SendOnIO(ok) ==
  /\ IOReady
  /\ tasks # <<>>
  /\ Head(tasks).kind = "send"
  /\ tasks' = Tail(tasks)
  /\ IF socket_.state = "null"
     THEN /\ ioFault' = "null_socket"
          /\ staleDeref' = FALSE
          /\ UNCHANGED <<success, event, sendProduced>>
     ELSE /\ Deref(Head(tasks), TRUE, ok, TRUE)
          /\ sendProduced' = IF Head(tasks).stale THEN sendProduced
                             ELSE [sendProduced EXCEPT
                                     ![Head(tasks).owner] = BoolStr(ok)]
  /\ ret' = NoRet
  /\ UNCHANGED <<coreVars, lock_, ioPc, pc, remaining, attempt, posted,
                 ghostVars>>
  /\ UNCHANGED logVars

\* The socket runs the connect callback: *success = (error == net::OK).
\* The test of *success that follows reads through the same handle.
OnConnectCompletedOnIO_Write(ok) ==
  /\ IOReady
  /\ socket_.state = "connecting"
  /\ Deref(socket_, TRUE, ok, FALSE)
  /\ socket_' = [socket_ EXCEPT !.state = IF ok THEN "open" ELSE "failed"]
  /\ \E seen \in (IF socket_.stale THEN BOOLEAN ELSE {ok}) :
        ioPc' = IF seen THEN "set" ELSE "signal"
  /\ ret' = NoRet
  /\ UNCHANGED <<is_connected_, received_queue_, lock_, tasks, pc, remaining,
                 attempt, posted, sendProduced, ghostVars>>
  /\ UNCHANGED logVars

\* if (*success) { AutoLock; is_connected_ = true; }
OnConnectCompletedOnIO_Set ==
  /\ ioFault = "none"
  /\ ioPc = "set"
  /\ lock_ = NoOwner
  /\ is_connected_' = TRUE
  /\ ioPc' = "signal"
  /\ Quiet
  /\ UNCHANGED <<received_queue_, socket_, lock_, tasks, ioFault, pc,
                 remaining, callVars, ghostVars>>
  /\ UNCHANGED logVars

\* event->Signal(); the callback has run.
OnConnectCompletedOnIO_Signal ==
  /\ ioFault = "none"
  /\ ioPc = "signal"
  /\ Deref(socket_, FALSE, FALSE, TRUE)
  /\ socket_' = CallbackDone(socket_)
  /\ ioPc' = "idle"
  /\ ret' = NoRet
  /\ UNCHANGED <<is_connected_, received_queue_, lock_, tasks, pc, remaining,
                 attempt, posted, sendProduced, ghostVars>>
  /\ UNCHANGED logVars

\* The open socket delivers its next message.
OnMessageReceived ==
  /\ IOReady
  /\ socket_.state = "open"
  /\ nextMsg < MaxMsgs
  /\ lock_ = NoOwner
  /\ nextMsg' = nextMsg + 1
  /\ received_queue_' = PushBack(received_queue_, nextMsg + 1)
  /\ pc' \in Signal(pc)
  /\ Quiet
  /\ UNCHANGED <<is_connected_, socket_, lock_, tasks, ioPc, ioFault,
                 remaining, callVars, delivered>>
  /\ UNCHANGED logVars

\* The open socket reports that it closed.
OnClose ==
  /\ IOReady
  /\ socket_.state = "open"
  /\ lock_ = NoOwner
  /\ is_connected_' = FALSE
  /\ socket_' = [socket_ EXCEPT !.state = "closed"]
  /\ pc' \in Signal(pc)
  /\ Quiet
  /\ UNCHANGED <<received_queue_, lock_, tasks, ioPc, ioFault, remaining,
                 callVars, ghostVars>>
  /\ UNCHANGED logVars

\* ---- specification -------------------------------------------------------------
Next ==
  \/ \E t \in Callers, b \in 0..MaxBudget : ReceiveNextMessage(t, b)
  \/ \E t \in Callers : AcquireLock(t)
  \/ \E t \in Callers : ReceiveLoop(t)
  \/ \E t \in Callers : WaitTimedOut(t)
  \/ \E t \in Callers : SpuriousWakeup(t)
  \/ Tick
  \/ \E t \in Controllers : Connect(t)
  \/ \E t \in Controllers : ConnectSignalled(t)
  \/ \E t \in Controllers : ConnectTimedOut(t)
  \/ \E t \in Controllers : Send(t)
  \/ \E t \in Controllers : SendSignalled(t)
  \/ ConnectOnIO
  \/ \E ok \in BOOLEAN : SendOnIO(ok)
  \/ \E ok \in BOOLEAN : OnConnectCompletedOnIO_Write(ok)
  \/ OnConnectCompletedOnIO_Set
  \/ OnConnectCompletedOnIO_Signal
  \/ OnMessageReceived
  \/ OnClose

Spec == Init /\ [][Next]_vars

\* Scheduling the code relies on: time passes, a thread that can run does run,
\* a thread contending for lock_ gets it eventually, and a timed wait ends by
\* its signal or by its timeout.
FairSpec ==
  /\ Spec
  /\ WF_vars(Tick)
  /\ \A t \in Callers : /\ SF_vars(AcquireLock(t))
                        /\ WF_vars(ReceiveLoop(t))
                        /\ WF_vars(WaitTimedOut(t))
  /\ \A t \in Controllers : WF_vars(ConnectSignalled(t) \/ ConnectTimedOut(t))

\* ==== the log reader (devtools_log_reader.cc) =================================
\* Text is a sequence of characters (one-character strings); a line holds no
\* newline.  A std::istringstream is its text s, the index p of the next
\* character to read, and good (no eofbit, no failbit): once a read has hit
\* the end of the text or failed, every later read does nothing.
\* The value of a function on the one element of its domain:
\* Only([x \in {v} |-> e]) is e with x standing for the value of v, as the
\* statements after an assignment run with the value assigned.
Only(f) == f[CHOOSE x \in DOMAIN f : TRUE]

Space == " "
Quote == "\""
Backslash == "\\"
Digits == <<"0", "1", "2", "3", "4", "5", "6", "7", "8", "9">>

IsDigit(c) == \E d \in 1..Len(Digits) : Digits[d] = c
DigitVal(c) == (CHOOSE d \in 1..Len(Digits) : Digits[d] = c) - 1

StringStream(line) == [s |-> line, p |-> 1, good |-> TRUE]

\* The index of the first character at or after p that is not whitespace,
\* or the index after the end of s.
SkipWs(s, p) ==
  CHOOSE b \in p..(Len(s) + 1) :
     /\ b > Len(s) \/ s[b] # Space
     /\ \A q \in p..(b - 1) : s[q] = Space

\* The index after the last character of the word that starts at p.
WordEnd(s, p) ==
  CHOOSE e \in p..(Len(s) + 1) :
     /\ e > Len(s) \/ s[e] = Space
     /\ \A q \in p..(e - 1) : s[q] # Space

\* stream >> word, for a std::string that holds old: leading whitespace is
\* skipped and the characters up to the next whitespace are read; with
\* nothing left to read the stream fails and the string keeps its value.
ReadWord(st, old) ==
  IF ~st.good THEN [st |-> st, word |-> old]
  ELSE Only([b \in {SkipWs(st.s, st.p)} |->
         IF b > Len(st.s)
         THEN [st |-> [st EXCEPT !.p = b, !.good = FALSE], word |-> old]
         ELSE Only([e \in {WordEnd(st.s, b)} |->
                [st |-> [st EXCEPT !.p = e, !.good = e <= Len(st.s)],
                 word |-> SubSeq(st.s, b, e - 1)]])])

\* stream.ignore(n): up to n characters are dropped.
Ignore(st, n) ==
  IF ~st.good THEN st
  ELSE IF st.p + n - 1 <= Len(st.s) THEN [st EXCEPT !.p = st.p + n]
  ELSE [st EXCEPT !.p = Len(st.s) + 1, !.good = FALSE]

\* The index after the last digit of the run of digits that starts at p.
DigitsEnd(s, p) ==
  CHOOSE e \in p..(Len(s) + 1) :
     /\ e > Len(s) \/ ~IsDigit(s[e])
     /\ \A q \in p..(e - 1) : IsDigit(s[q])

\* The number the digits s[b..e-1] write in base ten.
RECURSIVE Decimal(_, _, _)
Decimal(s, b, e) ==
  IF e <= b THEN 0 ELSE 10 * Decimal(s, b, e - 1) + DigitVal(s[e - 1])

\* stream >> id, for an int that holds 0: whitespace is skipped and a run of
\* digits is read; with no digit there the stream fails and id is 0.
ReadInt(st) ==
  IF ~st.good THEN [st |-> st, val |-> 0]
  ELSE Only([b \in {SkipWs(st.s, st.p)} |->
         Only([e \in {DigitsEnd(st.s, b)} |->
           IF e = b
           THEN [st |-> [st EXCEPT !.p = b, !.good = FALSE], val |-> 0]
           ELSE [st |-> [st EXCEPT !.p = e, !.good = e <= Len(st.s)],
                 val |-> Decimal(st.s, b, e)]])])

\* std::getline(stream, next_line) for an empty next_line: what is left of
\* the text, or nothing when the stream is not good.
RestOfLine(st) ==
  IF st.good THEN SubSeq(st.s, st.p, Len(st.s)) ELSE <<>>
\* The words the reader compares the tokens of a line with.
HeaderPattern ==
  <<"[", "?", "?", "?", "?", "?", "?", "?", "?", "?", "?", ".", "?", "?",
    "?", "]", "[", "D", "E", "B", "U", "G", "]", ":">>
DevToolsWord ==
  <<"D", "e", "v", "T", "o", "o", "l", "s">>
HttpWord ==
  <<"H", "T", "T", "P">>
WebSocketWord ==
  <<"W", "e", "b", "S", "o", "c", "k", "e", "t">>
ResponseWord ==
  <<"R", "e", "s", "p", "o", "n", "s", "e", ":">>
CommandWord ==
  <<"C", "o", "m", "m", "a", "n", "d", ":">>
RequestWord ==
  <<"R", "e", "q", "u", "e", "s", "t", ":">>
EventWord ==
  <<"E", "v", "e", "n", "t", ":">>

\* One character of a pattern of base::MatchPattern: the positions of word
\* that a match can have reached after it, S being those before it.  A "?"
\* stands for one character or none, any other character for itself.
MatchChar(word, ch, S) ==
  IF ch = "?" THEN S \cup {i + 1 : i \in {k \in S : k <= Len(word)}}
  ELSE {i + 1 : i \in {k \in S : k <= Len(word) /\ word[k] = ch}}

\* The positions of word that a match can have reached after the characters
\* a..b of pattern, S being those before them: the first half of the
\* characters is matched, then the second half from where that ends.
RECURSIVE MatchEnds(_, _, _, _, _)
MatchEnds(word, pattern, a, b, S) ==
  IF a > b THEN S
  ELSE IF a = b THEN MatchChar(word, pattern[a], S)
  ELSE Only([T \in {MatchEnds(word, pattern, a, (a + b) \div 2, S)} |->
         MatchEnds(word, pattern, (a + b) \div 2 + 1, b, T)])

\* A reader that takes any first word for the preamble of a header.
MatchPattern_Any(word, pattern) == TRUE

\* base::MatchPattern(word, pattern), for a pattern without "*".
MatchPattern(word, pattern) ==
  (Len(word) + 1) \in MatchEnds(word, pattern, 1, Len(pattern), {1})

\* IsHeader reads two words off the stream of the line; LogEntry goes on
\* reading the same stream.
IsHeader(header_stream) ==
  Only([preamble \in {ReadWord(header_stream, <<>>)} |->
    IF ~MatchPattern(preamble.word, HeaderPattern)
    THEN [st |-> preamble.st, result |-> FALSE]
    ELSE Only([second \in {ReadWord(preamble.st, preamble.word)} |->
           [st |-> second.st, result |-> second.word = DevToolsWord]])])

\* Parses the word (id=X) and returns the id number.
GetId(header_stream) ==
  Only([num \in {ReadInt(Ignore(header_stream, 5))} |->
    [st |-> Ignore(num.st, 1), id |-> num.val]])

\* A field the constructor has not written when it returns.
Unset == "unset"

\* What LogEntry::id may hold when the constructor has not written it: the
\* constructor assigns id only for an entry that is not HTTP.
Indeterminate == {0, 1}

\* The fields of a LogEntry before the constructor has written any, id
\* holding junk; command_name and payload are empty strings.
Unwritten(junk) ==
  [protocol_type |-> Unset, event_type |-> Unset, command_name |-> <<>>,
   id |-> junk, payload |-> <<>>, error |-> FALSE]

\* Stands for the entry where a call returns none (nullptr).
NoEntry == Unwritten(0)

\* if (!(protocol_type == HTTP && event_type == response)): the header
\* carries a command name.
HasCommand(protocol, event_type) ==
  ~(protocol = "HTTP" /\ event_type = "response")

\* A reader that takes any id for a sequence number.
NoSequenceId_Never(id) == FALSE

\* if (id == 0): the header gives no sequence number.
NoSequenceId(id) == id = 0

\* The protocol that protocol_type_string names, if any.
ProtocolOf(protocol_type_string) ==
  IF protocol_type_string = HttpWord THEN "HTTP"
  ELSE IF protocol_type_string = WebSocketWord THEN "WebSocket"
  ELSE Unset

\* The event type that event_type_string names, if any.
EventTypeOf(event_type_string) ==
  IF event_type_string = ResponseWord THEN "response"
  ELSE IF event_type_string \in {CommandWord, RequestWord} THEN "request"
  ELSE IF event_type_string = EventWord THEN "event"
  ELSE Unset

\* LogEntry::LogEntry(header_stream): the entry, and the stream as the
\* constructor leaves it.  p, e and c are the reads of the protocol word,
\* the event word and the command name.
LogEntry(header_stream, junk) ==
  Only([p \in {ReadWord(header_stream, <<>>)} |->
    IF ProtocolOf(p.word) = Unset
    THEN [st |-> p.st, entry |-> [Unwritten(junk) EXCEPT !.error = TRUE]]
    ELSE Only([e \in {ReadWord(p.st, <<>>)} |->
      IF EventTypeOf(e.word) = Unset
      THEN [st |-> e.st,
            entry |-> [Unwritten(junk) EXCEPT
                         !.protocol_type = ProtocolOf(p.word),
                         !.error = TRUE]]
      ELSE Only([named \in {[Unwritten(junk) EXCEPT
                   !.protocol_type = ProtocolOf(p.word),
                   !.event_type = EventTypeOf(e.word)]} |->
        IF ~HasCommand(named.protocol_type, named.event_type)
        THEN [st |-> e.st, entry |-> named]
        ELSE Only([c \in {ReadWord(e.st, <<>>)} |->
          IF c.word = <<>>
          THEN [st |-> c.st, entry |-> [named EXCEPT !.error = TRUE]]
          ELSE IF named.protocol_type = "HTTP"
          THEN [st |-> c.st,
                entry |-> [named EXCEPT !.command_name = c.word]]
          ELSE Only([i \in {GetId(c.st)} |->
                 [st |-> i.st,
                  entry |-> [named EXCEPT !.command_name = c.word,
                                          !.id = i.id,
                                          !.error = NoSequenceId(i.id)]]
          ])])])])])

\* The loop of CountChar toggles in_quote at every quote that is the first
\* character of the line or does not follow a backslash: these are quotes.
\* in_quote holds in round i when the rounds before i have toggled it an odd
\* number of times.
InQuote(quotes, i) == Cardinality({j \in quotes : j < i}) % 2 = 1

\* total counts up at every opening_char and down at every closing_char that
\* the loop meets with in_quote false.
CountChar(line, opening_char, closing_char) ==
  Only([quotes \in {{j \in 1..Len(line) :
                        /\ line[j] = Quote
                        /\ (j = 1 \/ line[j - 1] # Backslash)}} |->
    Cardinality({i \in 1..Len(line) :
                   line[i] = opening_char /\ ~InQuote(quotes, i)})
    - Cardinality({i \in 1..Len(line) :
                     line[i] = closing_char /\ ~InQuote(quotes, i)})])

\* std::getline(log_file, next_line) on a stream that is not at eof: the
\* next line, with eof set when the text ended before a newline was found.
GetLine(file, pos, eof) ==
  IF pos < Len(file.lines)
  THEN [line |-> file.lines[pos + 1], pos |-> pos + 1,
        eof |-> (pos + 1 = Len(file.lines) /\ ~file.nl)]
  ELSE [line |-> <<>>, pos |-> pos, eof |-> TRUE]

\* What GetJSONString returns, where it leaves log_file, and whether it threw.
Extracted(json, pos, eof, fault) ==
  [json |-> json, pos |-> pos, eof |-> eof, fault |-> fault]

\* The while (true) loop of GetJSONString.
RECURSIVE JsonLines(_, _, _, _, _, _, _, _)
JsonLines(json, next_line, count, opening_char, closing_char, file, pos, eof) ==
  Only([opening_char_count \in
          {count + CountChar(next_line, opening_char, closing_char)} |->
    IF opening_char_count = 0
    THEN Extracted(json \o next_line, pos, eof, FALSE)
    ELSE IF eof
    THEN Extracted(<<>>, pos, eof, FALSE)
    ELSE Only([g \in {GetLine(file, pos, eof)} |->
           JsonLines(json \o next_line, g.line, opening_char_count,
                     opening_char, closing_char, file, g.pos, g.eof)])])

\* GetJSONString(header_stream).  next_line.substr(1) throws
\* std::out_of_range when what is left of the header line is empty, and
\* nothing catches it (fault); next_line[0] of an empty string is the
\* terminating null character.
GetJSONString(header_stream, file, pos, eof) ==
  Only([rest \in {RestOfLine(header_stream)} |->
    IF rest = <<>> THEN Extracted(<<>>, pos, eof, TRUE)
    ELSE Only([next_line \in {Tail(rest)} |->
      Only([opening_char \in
              {IF next_line = <<>> THEN "NUL" ELSE next_line[1]} |->
        IF opening_char = "{"
        THEN JsonLines(<<>>, next_line, 0, "{", "}", file, pos, eof)
        ELSE IF opening_char = "["
        THEN JsonLines(<<>>, next_line, 0, "[", "]", file, pos, eof)
        ELSE Extracted(<<>>, pos, eof, FALSE)])])])

\* A reader that runs the payload extraction for every entry.
CarriesPayload_Always(entry) == TRUE

\* if (!(event_type == request && protocol_type == HTTP)): the payload of
\* the entry is read.
CarriesPayload(entry) ==
  ~(entry.event_type = "request" /\ entry.protocol_type = "HTTP")

\* What a GetNext call returns, and where it leaves log_file.
Returned(kind, entry, pos, eof) ==
  [kind |-> kind, entry |-> entry, pos |-> pos, eof |-> eof]

\* DevToolsLogReader::GetNext(protocol_type) with log_file at line pos.
RECURSIVE GetNextFrom(_, _, _, _, _)
GetNextFrom(file, pos, eof, protocol_type, junk) ==
  IF eof THEN Returned("null", NoEntry, pos, eof)
  ELSE Only([g \in {GetLine(file, pos, eof)} |->
    Only([header \in {IsHeader(StringStream(g.line))} |->
      IF ~header.result
      THEN GetNextFrom(file, g.pos, g.eof, protocol_type, junk)
      ELSE Only([log_entry \in {LogEntry(header.st, junk)} |->
        IF log_entry.entry.error
        THEN Returned("null", NoEntry, g.pos, g.eof)
        ELSE IF log_entry.entry.protocol_type # protocol_type
        THEN GetNextFrom(file, g.pos, g.eof, protocol_type, junk)
        ELSE IF ~CarriesPayload(log_entry.entry)
        THEN Returned("entry", log_entry.entry, g.pos, g.eof)
        ELSE Only([js \in
                    {GetJSONString(log_entry.st, file, g.pos, g.eof)} |->
          IF js.fault
          THEN Returned("fault", NoEntry, js.pos, js.eof)
          ELSE IF js.json = <<>>
          THEN Returned("null", NoEntry, js.pos, js.eof)
          ELSE Returned("entry",
                        [log_entry.entry EXCEPT !.payload = js.json],
                        js.pos, js.eof)])])])])

Protocols == {"HTTP", "WebSocket"}

\* The reader has thrown out of a GetNext call.
Faulted == \E k \in 1..Len(log_calls) : log_calls[k].kind = "fault"

\* A call was made with log_file at end-of-input already: it returned null,
\* and so does every call after it.
CalledAtEof == \E k \in 1..Len(log_calls) : log_calls[k].at_eof

\* One GetNext call; junk is what an id the constructor leaves unwritten
\* turns out to hold.
GetNext(protocol_type, junk) ==
  /\ ~Faulted
  /\ ~CalledAtEof
  /\ \E r \in {GetNextFrom(log_file, log_pos, log_eof, protocol_type, junk)} :
        /\ log_pos' = r.pos
        /\ log_eof' = r.eof
        /\ log_calls' = Append(log_calls,
                               [protocol_type |-> protocol_type,
                                from |-> log_pos, at_eof |-> log_eof,
                                kind |-> r.kind, entry |-> r.entry,
                                to |-> r.pos, eof |-> r.eof])
  /\ UNCHANGED log_file
  /\ UNCHANGED <<is_connected_, received_queue_, lock_, socket_, tasks, ioPc,
                 ioFault, pc, remaining, success, event, attempt, posted, ret,
                 nextMsg, delivered, sendProduced, staleDeref>>

\* ---- the logs the reader is run on ------------------------------------------
\* A log is written from items: entries as ChromeDriver logs them (a header
\* line that carries the payload, which may run over further lines), lines
\* of other logging, headers that do not decode and headers whose payload
\* does not parse.  Every item records what it was written from: its shape,
\* its protocol and the entry it stands for.
Stamp ==
  <<"[", "1", "5", "4", "0", "0", "0", "0", "0", "0", "0", ".", "1", "2", "3",
    "]", "[", "D", "E", "B", "U", "G", "]", ":">>

\* The line "<stamp> DevTools <rest>".
Header(rest) == Stamp \o <<Space>> \o DevToolsWord \o <<Space>> \o rest

LoggedEntry(protocol, event_type, command, id, payload) ==
  [protocol_type |-> protocol, event_type |-> event_type, command_name |-> command,
   id |-> id, payload |-> payload, error |-> FALSE]

LogItem(lines, shape, protocol, entry, quoted) ==
  [lines |-> lines, shape |-> shape, protocol |-> protocol, entry |-> entry,
   quoted |-> quoted]

\* <stamp> DevTools WebSocket Command: Page.navigate (id=7) {"url":"http://x"}
WsCommand ==
  LogItem(
    <<Header(<<"W", "e", "b", "S", "o", "c", "k", "e", "t", " ", "C", "o",
        "m", "m", "a", "n", "d", ":", " ", "P", "a", "g", "e", ".", "n", "a",
        "v", "i", "g", "a", "t", "e", " ", "(", "i", "d", "=", "7", ")", " ",
        "{", "\"", "u", "r", "l", "\"", ":", "\"", "h", "t", "t", "p", ":",
        "/", "/", "x", "\"", "}">>)>>,
    "entry", "WebSocket",
    LoggedEntry("WebSocket", "request",
      <<"P", "a", "g", "e", ".", "n", "a", "v", "i", "g", "a", "t", "e">>,
      7,
      <<"{", "\"", "u", "r", "l", "\"", ":", "\"", "h", "t", "t", "p", ":",
        "/", "/", "x", "\"", "}">>),
    FALSE)

\* <stamp> DevTools WebSocket Event: Page.loadEventFired (id=12) {
\*  "t":"}"
\* }
WsEvent ==
  LogItem(
    <<Header(<<"W", "e", "b", "S", "o", "c", "k", "e", "t", " ", "E", "v",
        "e", "n", "t", ":", " ", "P", "a", "g", "e", ".", "l", "o", "a", "d",
        "E", "v", "e", "n", "t", "F", "i", "r", "e", "d", " ", "(", "i", "d",
        "=", "1", "2", ")", " ", "{">>),
      <<" ", "\"", "t", "\"", ":", "\"", "}", "\"">>,
      <<"}">>>>,
    "entry", "WebSocket",
    LoggedEntry("WebSocket", "event",
      <<"P", "a", "g", "e", ".", "l", "o", "a", "d", "E", "v", "e", "n", "t",
        "F", "i", "r", "e", "d">>,
      12,
      <<"{", " ", "\"", "t", "\"", ":", "\"", "}", "\"", "}">>),
    TRUE)

\* <stamp> DevTools WebSocket Response: Page.navigate (id=7) {"a":"}"}
WsResponse ==
  LogItem(
    <<Header(<<"W", "e", "b", "S", "o", "c", "k", "e", "t", " ", "R", "e",
        "s", "p", "o", "n", "s", "e", ":", " ", "P", "a", "g", "e", ".", "n",
        "a", "v", "i", "g", "a", "t", "e", " ", "(", "i", "d", "=", "7", ")",
        " ", "{", "\"", "a", "\"", ":", "\"", "}", "\"", "}">>)>>,
    "entry", "WebSocket",
    LoggedEntry("WebSocket", "response",
      <<"P", "a", "g", "e", ".", "n", "a", "v", "i", "g", "a", "t", "e">>,
      7,
      <<"{", "\"", "a", "\"", ":", "\"", "}", "\"", "}">>),
    TRUE)

\* <stamp> DevTools WebSocket Event: Log.entry (id=3) ["[","{"]
WsArray ==
  LogItem(
    <<Header(<<"W", "e", "b", "S", "o", "c", "k", "e", "t", " ", "E", "v",
        "e", "n", "t", ":", " ", "L", "o", "g", ".", "e", "n", "t", "r", "y",
        " ", "(", "i", "d", "=", "3", ")", " ", "[", "\"", "[", "\"", ",",
        "\"", "{", "\"", "]">>)>>,
    "entry", "WebSocket",
    LoggedEntry("WebSocket", "event",
      <<"L", "o", "g", ".", "e", "n", "t", "r", "y">>,
      3,
      <<"[", "\"", "[", "\"", ",", "\"", "{", "\"", "]">>),
    TRUE)

\* <stamp> DevTools WebSocket Response: DOM.getPath (id=8) {"dir":"C:\\[x]\\"}
WsPath ==
  LogItem(
    <<Header(<<"W", "e", "b", "S", "o", "c", "k", "e", "t", " ", "R", "e",
        "s", "p", "o", "n", "s", "e", ":", " ", "D", "O", "M", ".", "g", "e",
        "t", "P", "a", "t", "h", " ", "(", "i", "d", "=", "8", ")", " ", "{",
        "\"", "d", "i", "r", "\"", ":", "\"", "C", ":", "\\", "\\", "[", "x",
        "]", "\\", "\\", "\"", "}">>)>>,
    "entry", "WebSocket",
    LoggedEntry("WebSocket", "response",
      <<"D", "O", "M", ".", "g", "e", "t", "P", "a", "t", "h">>,
      8,
      <<"{", "\"", "d", "i", "r", "\"", ":", "\"", "C", ":", "\\", "\\", "[",
        "x", "]", "\\", "\\", "\"", "}">>),
    TRUE)

\* <stamp> DevTools HTTP Response: {"status":0}
HttpResponse ==
  LogItem(
    <<Header(<<"H", "T", "T", "P", " ", "R", "e", "s", "p", "o", "n", "s",
        "e", ":", " ", "{", "\"", "s", "t", "a", "t", "u", "s", "\"", ":",
        "0", "}">>)>>,
    "entry", "HTTP",
    LoggedEntry("HTTP", "response",
      <<>>,
      0,
      <<"{", "\"", "s", "t", "a", "t", "u", "s", "\"", ":", "0", "}">>),
    FALSE)

\* <stamp> DevTools HTTP Command: Page.navigate {"url":"http://x"}
HttpCommand ==
  LogItem(
    <<Header(<<"H", "T", "T", "P", " ", "C", "o", "m", "m", "a", "n", "d",
        ":", " ", "P", "a", "g", "e", ".", "n", "a", "v", "i", "g", "a", "t",
        "e", " ", "{", "\"", "u", "r", "l", "\"", ":", "\"", "h", "t", "t",
        "p", ":", "/", "/", "x", "\"", "}">>)>>,
    "entry", "HTTP",
    LoggedEntry("HTTP", "request",
      <<"P", "a", "g", "e", ".", "n", "a", "v", "i", "g", "a", "t", "e">>,
      0,
      <<"{", "\"", "u", "r", "l", "\"", ":", "\"", "h", "t", "t", "p", ":",
        "/", "/", "x", "\"", "}">>),
    FALSE)

\* <stamp> DevTools HTTP Command: Page.navigate
\* {"url":"http://x"}
HttpCommandThenPayload ==
  LogItem(
    <<Header(<<"H", "T", "T", "P", " ", "C", "o", "m", "m", "a", "n", "d",
        ":", " ", "P", "a", "g", "e", ".", "n", "a", "v", "i", "g", "a", "t",
        "e">>),
      <<"{", "\"", "u", "r", "l", "\"", ":", "\"", "h", "t", "t", "p", ":",
        "/", "/", "x", "\"", "}">>>>,
    "entry", "HTTP",
    LoggedEntry("HTTP", "request",
      <<"P", "a", "g", "e", ".", "n", "a", "v", "i", "g", "a", "t", "e">>,
      0,
      <<"{", "\"", "u", "r", "l", "\"", ":", "\"", "h", "t", "t", "p", ":",
        "/", "/", "x", "\"", "}">>),
    FALSE)

\* Starting ChromeDriver
Prose ==
  LogItem(
    <<<<"S", "t", "a", "r", "t", "i", "n", "g", " ", "C", "h", "r", "o", "m",
        "e", "D", "r", "i", "v", "e", "r">>>>,
    "noise", "none",
    NoEntry,
    FALSE)

\* [1540000000.123][INFO]: DevTools WebSocket Command: x (id=1) {}
InfoLine ==
  LogItem(
    <<<<"[", "1", "5", "4", "0", "0", "0", "0", "0", "0", "0", ".", "1", "2",
        "3", "]", "[", "I", "N", "F", "O", "]", ":", " ", "D", "e", "v", "T",
        "o", "o", "l", "s", " ", "W", "e", "b", "S", "o", "c", "k", "e", "t",
        " ", "C", "o", "m", "m", "a", "n", "d", ":", " ", "x", " ", "(", "i",
        "d", "=", "1", ")", " ", "{", "}">>>>,
    "noise", "none",
    NoEntry,
    FALSE)

\* [1540000000.123][DEBUG]: Waiting
DebugLine ==
  LogItem(
    <<<<"[", "1", "5", "4", "0", "0", "0", "0", "0", "0", "0", ".", "1", "2",
        "3", "]", "[", "D", "E", "B", "U", "G", "]", ":", " ", "W", "a", "i",
        "t", "i", "n", "g">>>>,
    "noise", "none",
    NoEntry,
    FALSE)

\* (an empty line)
EmptyLine ==
  LogItem(
    <<<<>>>>,
    "noise", "none",
    NoEntry,
    FALSE)

\* <stamp> DevTools FTP Command: x
BadProtocol ==
  LogItem(
    <<Header(<<"F", "T", "P", " ", "C", "o", "m", "m", "a", "n", "d", ":",
        " ", "x">>)>>,
    "badheader", "none",
    NoEntry,
    FALSE)

\* <stamp> DevTools WebSocket Notify: x (id=1) {}
BadEvent ==
  LogItem(
    <<Header(<<"W", "e", "b", "S", "o", "c", "k", "e", "t", " ", "N", "o",
        "t", "i", "f", "y", ":", " ", "x", " ", "(", "i", "d", "=", "1", ")",
        " ", "{", "}">>)>>,
    "badheader", "none",
    NoEntry,
    FALSE)

\* <stamp> DevTools WebSocket Command:
WsNoCommand ==
  LogItem(
    <<Header(<<"W", "e", "b", "S", "o", "c", "k", "e", "t", " ", "C", "o",
        "m", "m", "a", "n", "d", ":">>)>>,
    "badheader", "none",
    NoEntry,
    FALSE)

\* <stamp> DevTools HTTP Request:
HttpNoCommand ==
  LogItem(
    <<Header(<<"H", "T", "T", "P", " ", "R", "e", "q", "u", "e", "s", "t",
        ":">>)>>,
    "badheader", "none",
    NoEntry,
    FALSE)

\* <stamp> DevTools WebSocket Command: x (id=0) {}
IdZero ==
  LogItem(
    <<Header(<<"W", "e", "b", "S", "o", "c", "k", "e", "t", " ", "C", "o",
        "m", "m", "a", "n", "d", ":", " ", "x", " ", "(", "i", "d", "=", "0",
        ")", " ", "{", "}">>)>>,
    "badheader", "none",
    NoEntry,
    FALSE)

\* <stamp> DevTools WebSocket Event: x {"a":1}
NoId ==
  LogItem(
    <<Header(<<"W", "e", "b", "S", "o", "c", "k", "e", "t", " ", "E", "v",
        "e", "n", "t", ":", " ", "x", " ", "{", "\"", "a", "\"", ":", "1",
        "}">>)>>,
    "badheader", "none",
    NoEntry,
    FALSE)

\* <stamp> DevTools HTTP Response:
NoRemainder ==
  LogItem(
    <<Header(<<"H", "T", "T", "P", " ", "R", "e", "s", "p", "o", "n", "s",
        "e", ":">>)>>,
    "badpayload", "HTTP",
    NoEntry,
    FALSE)

\* <stamp> DevTools HTTP Response: 
SeparatorOnly ==
  LogItem(
    <<Header(<<"H", "T", "T", "P", " ", "R", "e", "s", "p", "o", "n", "s",
        "e", ":", " ">>)>>,
    "badpayload", "HTTP",
    NoEntry,
    FALSE)

\* <stamp> DevTools HTTP Response: ok
NotJson ==
  LogItem(
    <<Header(<<"H", "T", "T", "P", " ", "R", "e", "s", "p", "o", "n", "s",
        "e", ":", " ", "o", "k">>)>>,
    "badpayload", "HTTP",
    NoEntry,
    FALSE)

\* <stamp> DevTools HTTP Response: {}}
CloseHeavy ==
  LogItem(
    <<Header(<<"H", "T", "T", "P", " ", "R", "e", "s", "p", "o", "n", "s",
        "e", ":", " ", "{", "}", "}">>)>>,
    "badpayload", "HTTP",
    NoEntry,
    FALSE)

\* <stamp> DevTools WebSocket Event: x (id=5) {"a":{
Unfinished ==
  LogItem(
    <<Header(<<"W", "e", "b", "S", "o", "c", "k", "e", "t", " ", "E", "v",
        "e", "n", "t", ":", " ", "x", " ", "(", "i", "d", "=", "5", ")", " ",
        "{", "\"", "a", "\"", ":", "{">>)>>,
    "badpayload", "WebSocket",
    NoEntry,
    FALSE)

Catalogue ==
  <<WsCommand, WsEvent, WsResponse, WsArray,
    WsPath, HttpResponse, HttpCommand, HttpCommandThenPayload,
    Prose, InfoLine, DebugLine, EmptyLine,
    BadProtocol, BadEvent, WsNoCommand, HttpNoCommand,
    IdZero, NoId, NoRemainder, SeparatorOnly,
    NotJson, CloseHeavy, Unfinished>>

\* ---- the reader's specification ----------------------------------------------
\* The lines of the log written from the items with these catalogue numbers.
RECURSIVE LinesOf(_)
LinesOf(items) ==
  IF items = <<>> THEN <<>>
  ELSE Catalogue[Head(items)].lines \o LinesOf(Tail(items))

\* The logs of at most MaxItems items.
Logs == UNION {[1..n -> 1..Len(Catalogue)] : n \in 0..MaxItems}

\* DevToolsLogReader(log_path): log_file is open at the start of a log, whose
\* last line ends with a newline (nl) or not.
LogInit ==
  /\ CoreInit
  /\ \E items \in Logs, nl \in BOOLEAN :
        /\ items = <<>> => ~nl
        /\ log_file = [lines |-> LinesOf(items), nl |-> nl, items |-> items]
  /\ log_pos = 0
  /\ log_eof = FALSE
  /\ log_calls = <<>>

LogNext ==
  \E protocol_type \in Protocols, junk \in Indeterminate :
     GetNext(protocol_type, junk)

LogSpec == LogInit /\ [][LogNext]_vars

\* ---- claims --------------------------------------------------------------------
Statuses == {"Ok", "Timeout", "Disconnected"}

\* The step in which thread t returns from ReceiveNextMessage.
ReceiveReturns(t) == InReceive(t) /\ pc'[t] = "idle"

\* C1: every ReceiveNextMessage call returns once its budget has run out (it
\* never blocks forever, also across spurious wakeups); it returns from the
\* loop test only, with one of Ok, Timeout, Disconnected; it returns Ok exactly
\* when it popped the front message, and otherwise leaves the queue unchanged.
C1_ReceiveResolves ==
  /\ [][\A t \in Callers : ReceiveReturns(t) =>
          /\ pc[t] \in {"recv_loop", "recv_reloop"}
          /\ ret'.who = t /\ ret'.op = "recv" /\ ret'.val \in Statuses
          /\ (ret'.val = "Ok") <=>
               /\ received_queue_ # <<>>
               /\ ret'.msg = Head(received_queue_)
               /\ received_queue_' = Tail(received_queue_)
          /\ (ret'.val # "Ok") => (received_queue_' = received_queue_)]_vars
  /\ \A t \in Callers : InReceive(t) ~> (pc[t] = "idle")

\* A receive that waited until its budget ran out has returned Timeout.
C1_Witness ==
  ret.op = "recv" /\ ret.val = "Timeout" /\ ret.waited /\ ret.left = 0

\* C2: strict FIFO delivery.  Message ids count the pushes of OnMessageReceived,
\* so the messages returned with Ok, in the order of their return by any
\* thread, carry strictly increasing ids: push order, and none twice.
C2_Fifo ==
  \A i, j \in 1..Len(delivered) : i < j => delivered[i] < delivered[j]

\* Two messages were pushed and both were returned, the second to thread c2.
C2_Witness ==
  /\ delivered = <<1, 2>>
  /\ ret.op = "recv" /\ ret.val = "Ok" /\ ret.msg = 2 /\ ret.who = "c2"

\* The step in which OnClose runs.
CloseFires == is_connected_ /\ ~is_connected_'

\* The step in which thread t leaves the loop test of ReceiveNextMessage.
LoopStep(t) == pc[t] \in {"recv_loop", "recv_reloop"} /\ pc'[t] # pc[t]

C4_CloseWakesAll ==
  [][CloseFires => \A t \in Waiters : pc'[t] = "recv_woken"]_vars

\* C5 (as claimed): a close is ordered after the messages queued before it: no
\* call returns Disconnected while messages are queued; a call that tests the
\* loop with a non-empty queue pops the front message and returns Ok.
C5_QueuedBeforeClose ==
  [][\A t \in Callers : LoopStep(t) /\ received_queue_ # <<>> =>
        ret'.who = t /\ ret'.val = "Ok" /\ ret'.msg = Head(received_queue_)]_vars

\* The step in which thread t returns from Connect, and the one in which its
\* TimedWait times out.
ConnectReturns(t) == pc[t] = "conn_wait" /\ pc'[t] = "idle"
WaitExpires(t) ==
  pc[t] = "conn_wait" /\ ~event[t] /\ (pc'[t] # pc[t] \/ attempt'[t] # attempt[t])

\* C6 (as claimed): Connect posts at most 3 connect tasks, one wait per
\* attempt, it always returns, and it returns false when its third wait times
\* out like the two before it.
C6_BoundedConnect ==
  /\ [](\A t \in Controllers : posted[t] <= MaxAttempts /\ attempt[t] < MaxAttempts)
  /\ [][\A t \in Controllers :
          ConnectReturns(t) /\ ~event[t] => ret'.val = "false"]_vars
  /\ \A t \in Controllers : (pc[t] = "conn_wait") ~> (pc[t] = "idle")

\* C7 (as claimed): Connect reports failure only after 3 attempts.
C7_FailureAfterThree ==
  [][\A t \in Controllers :
       ConnectReturns(t) /\ ret'.val = "false" => posted[t] = MaxAttempts]_vars

\* C7 (amended): Connect retries exactly when a wait times out.  A timed-out
\* first or second wait posts the next connect task and waits again; Connect
\* returns only from a signalled wait or from the third timed-out wait, with
\* the success flag as then written: true when the third wait is signalled
\* with the flag set, false at once when a wait is signalled with it clear.
C7_TimeoutRetried ==
  /\ [][\A t \in Controllers : ConnectReturns(t) =>
          /\ ret'.who = t /\ ret'.val = BoolStr(success[t])
          /\ event[t] \/ attempt[t] = MaxAttempts - 1]_vars
  /\ [][\A t \in Controllers : WaitExpires(t) /\ attempt[t] < MaxAttempts - 1 =>
          /\ pc'[t] = "conn_wait"
          /\ posted'[t] = posted[t] + 1
          /\ tasks' = Append(tasks, [kind |-> "connect", owner |-> t,
                                     stale |-> FALSE])]_vars

\* Two waits timed out and the third was signalled with success.
C7_Witness ==
  /\ ret.op = "connect" /\ ret.val = "true" /\ ret.tries = 3 /\ ret.signalled
  /\ is_connected_

\* C8 (as claimed): no task or callback ever writes the success flag or signals
\* the event of a call that has returned.
C8_NoStaleHandle == ~staleDeref

\* The step in which thread t returns from Send.
SendReturns(t) == pc[t] = "send_wait" /\ pc'[t] = "idle"

\* C9 (as claimed): a send task never faults, and Send returns only after its
\* task has run, with the boolean the socket's send produced there.
C9_SendReturnsTaskResult ==
  /\ [](ioFault # "null_socket")
  /\ [][\A t \in Controllers : SendReturns(t) =>
          sendProduced[t] # "none" /\ ret'.val = sendProduced[t]]_vars

\* The first test of the loop by a call made with no budget left on an empty
\* queue.
ZeroBudgetCall(t) ==
  pc[t] = "recv_loop" /\ LoopStep(t) /\ remaining[t] = 0 /\ received_queue_ = <<>>

\* C10 (as claimed): such a call returns Timeout without entering a wait.
C10_ZeroBudgetTimeout ==
  [][\A t \in Callers : ZeroBudgetCall(t) =>
        pc'[t] = "idle" /\ ret'.val = "Timeout"]_vars

\* C10 (amended): such a call returns at once, without entering a wait:
\* Timeout while connected, Disconnected while not connected.
C10_ZeroBudgetNoWait ==
  [][\A t \in Callers : ZeroBudgetCall(t) =>
        /\ pc'[t] = "idle" /\ ret'.who = t /\ ~ret'.waited
        /\ ret'.val = IF is_connected_ THEN "Timeout" ELSE "Disconnected"]_vars

\* A call with no budget left returned Timeout from a connected, empty queue
\* without having waited.
C10_Witness ==
  /\ ret.op = "recv" /\ ret.val = "Timeout" /\ ~ret.waited /\ ret.left = 0
  /\ is_connected_ /\ received_queue_ = <<>>
\* A step of the I/O context that runs the connect task at the head of the
\* task queue.
ConnectTaskRuns ==
  /\ tasks # <<>>
  /\ Head(tasks).kind = "connect"
  /\ Len(tasks') = Len(tasks) - 1

\* C16: a connect task that finds a socket and the transport connected
\* returns at once: it does not replace the socket, starts no connect on it,
\* writes no success flag and signals no event.
C16_AlreadyConnectedReturns ==
  [][(ConnectTaskRuns /\ socket_.state # "null" /\ is_connected_)
       => /\ socket_' = socket_
          /\ success' = success
          /\ event' = event
          /\ is_connected_' = is_connected_
          /\ ioPc' = "idle"
          /\ ~staleDeref']_vars

\* A second Connect call on the connected transport: its only task has run,
\* the socket is the open one of the first call and no connect callback is
\* pending, and the call's event is not signalled.
C16_Witness ==
  /\ pc["c1"] = "conn_wait"
  /\ posted["c1"] = 1
  /\ tasks = <<>>
  /\ ~event["c1"]
  /\ is_connected_
  /\ socket_.state = "open"
  /\ socket_.owner = NoOwner
  /\ ioPc = "idle"

\* The steps of the I/O context that need lock_.
IoStepNeedingLock ==
  \/ ConnectOnIO
  \/ OnConnectCompletedOnIO_Set
  \/ OnMessageReceived
  \/ OnClose

\* The I/O context has a step at hand that takes lock_.
IoWantsLock ==
  /\ ioFault = "none"
  /\ \/ ioPc = "set"
     \/ ioPc = "idle" /\ tasks # <<>> /\ Head(tasks).kind = "connect"
     \/ ioPc = "idle" /\ socket_.state = "open"

\* The I/O context has a step at hand that takes no lock.
IoWantsNoLock ==
  /\ ioFault = "none"
  /\ \/ ioPc = "signal"
     \/ ioPc = "idle" /\ tasks # <<>> /\ Head(tasks).kind = "send"
     \/ ioPc = "idle" /\ socket_.state = "connecting"

\* The threads that wait inside ReceiveNextMessage, Connect or Send.
Blocked == {t \in Callers : pc[t] \in {"recv_wait", "conn_wait", "send_wait"}}

\* C17: the I/O context never waits on a caller: a caller that waits inside
\* ReceiveNextMessage, Connect or Send does not hold lock_, whoever holds
\* lock_ can release it by a step of its own, and every step the I/O
\* context has at hand can be taken as soon as lock_ is free.
C17_IoNeverWaitsOnCaller ==
  /\ \A t \in Blocked : lock_ # t
  /\ \A t \in Callers : lock_ = t => ENABLED ReceiveLoop(t)
  /\ (IoWantsLock /\ lock_ = NoOwner) => ENABLED IoStepNeedingLock
  /\ IoWantsNoLock
       => ENABLED (\/ OnConnectCompletedOnIO_Signal
                   \/ \E ok \in BOOLEAN : SendOnIO(ok)
                   \/ \E ok \in BOOLEAN : OnConnectCompletedOnIO_Write(ok))

\* The I/O context is about to set the connected flag while one caller holds
\* lock_ and another waits inside Connect.
C17_Witness ==
  /\ ioPc = "set"
  /\ lock_ = "c2"
  /\ pc["c1"] = "conn_wait"

\* A step that takes a message out of the queue of a connected transport.
MessageLeaves ==
  /\ is_connected_
  /\ received_queue_ # <<>>
  /\ \/ Len(received_queue_') < Len(received_queue_)
     \/ SubSeq(received_queue_', 1, Len(received_queue_)) # received_queue_

C20_ResultAgrees ==
  /\ [](ret.op = "connect" /\ ret.val = "false" => ~is_connected_)
  /\ [][(~is_connected_ /\ is_connected_')
          => \E t \in Controllers : pc[t] = "conn_wait"]_vars


\* ---- the log reader's claims -------------------------------------------------
\* What the log was written from, to state what a call has to return.
ItemCount == Len(log_file.items)
ItemAt(k) == Catalogue[log_file.items[k]]
LineCount == Len(log_file.lines)
Calls == 1..Len(log_calls)

\* The number of lines of the log before item k.
RECURSIVE StartOf(_)
StartOf(k) == IF k = 1 THEN 0 ELSE StartOf(k - 1) + Len(ItemAt(k - 1).lines)

\* The number of the last line of item k.
EndOf(k) == StartOf(k) + Len(ItemAt(k).lines)

\* Line i of the log is no header: a line of other logging, or a line that
\* continues a payload.
NonHeaderLine(i) ==
  \E k \in 1..ItemCount :
     /\ StartOf(k) < i
     /\ i <= EndOf(k)
     /\ ItemAt(k).shape = "noise" \/ i > StartOf(k) + 1

\* The items whose header a call for protocol_type made at line from has to
\* stop at: a header that does not decode, or one of that protocol.
Stops(from, protocol_type) ==
  {k \in 1..ItemCount :
     /\ StartOf(k) >= from
     /\ \/ ItemAt(k).shape = "badheader"
        \/ ItemAt(k).shape \in {"entry", "badpayload"}
           /\ ItemAt(k).protocol = protocol_type}

\* The first of them, or 0 when no such header follows.
NextStop(c) ==
  LET S == Stops(c.from, c.protocol_type)
  IN IF c.at_eof \/ S = {} THEN 0 ELSE CHOOSE k \in S : \A j \in S : k <= j

\* Call c returned the entry e and left the log after line i.
ReturnedEntry(c, e, i) == c.kind = "entry" /\ c.entry = e /\ c.to = i

\* The entries of the log that are of protocol_type, in file order.
RECURSIVE EntriesFrom(_, _)
EntriesFrom(k, protocol_type) ==
  IF k > ItemCount THEN <<>>
  ELSE (IF ItemAt(k).protocol = protocol_type THEN <<ItemAt(k).entry>>
        ELSE <<>>) \o EntriesFrom(k + 1, protocol_type)

\* A log of well-formed entries, read by GetNext(WebSocket) calls only.
WebSocketRead ==
  /\ \A k \in 1..ItemCount : ItemAt(k).shape = "entry"
  /\ \A n \in Calls : log_calls[n].protocol_type = "WebSocket"

\* C11: on a log of well-formed HTTP and WebSocket entries, successive
\* GetNext(WebSocket) calls return the WebSocket entries, each once and in
\* file order, then null; no call returns an entry of another protocol than
\* the one it asked for.
C11_FiltersByProtocol ==
  /\ \A n \in Calls : log_calls[n].kind = "entry"
        => log_calls[n].entry.protocol_type = log_calls[n].protocol_type
  /\ WebSocketRead
       => \A n \in Calls :
             LET expected == EntriesFrom(1, "WebSocket")
             IN IF n <= Len(expected)
                THEN /\ log_calls[n].kind = "entry"
                     /\ log_calls[n].entry = expected[n]
                ELSE log_calls[n].kind = "null"

\* C12: an entry whose payload has brackets inside its strings is returned
\* with the whole payload, the read ending with the line on which the
\* brackets outside strings balance.
C12_QuoteAwarePayload ==
  \A n \in Calls :
     LET c == log_calls[n]
         k == NextStop(c)
     IN (k > 0 /\ ItemAt(k).shape = "entry" /\ ItemAt(k).quoted)
          => ReturnedEntry(c, ItemAt(k).entry, EndOf(k))

\* Call c is GetNext(HTTP) reaching the header "HTTP Command: Page.navigate"
\* of item k, with the payload {"url":"http://x"} after it.
ReachesHttpCommand(c, k) ==
  /\ c.protocol_type = "HTTP"
  /\ k = NextStop(c)
  /\ k > 0
  /\ ItemAt(k) \in {HttpCommand, HttpCommandThenPayload}

\* C13 as stated: the entry returned for the header "HTTP Command:
\* Page.navigate" is HTTP, request, "Page.navigate", id 0, and its payload
\* is the payload text that follows the header.
C13_HttpCommandPayload ==
  \A n \in Calls : \A k \in 1..ItemCount :
     ReachesHttpCommand(log_calls[n], k)
       => /\ log_calls[n].kind = "entry"
          /\ log_calls[n].entry = ItemAt(k).entry

\* C13 as the code has it: the entry returned is HTTP, request,
\* "Page.navigate" with an empty payload, and the read ends with the header
\* line: the payload text is not read.
C13_HttpCommandNoPayload ==
  \A n \in Calls : \A k \in 1..ItemCount :
     ReachesHttpCommand(log_calls[n], k)
       => /\ log_calls[n].kind = "entry"
          /\ log_calls[n].entry.protocol_type = "HTTP"
          /\ log_calls[n].entry.event_type = "request"
          /\ log_calls[n].entry.command_name = ItemAt(k).entry.command_name
          /\ log_calls[n].entry.payload = <<>>
          /\ log_calls[n].to = StartOf(k) + 1

C13_Witness ==
  \E n \in Calls : \E k \in 1..ItemCount :
     /\ ReachesHttpCommand(log_calls[n], k)
     /\ log_calls[n].kind = "entry"
     /\ log_calls[n].entry.payload = <<>>
     /\ ItemAt(k).entry.payload # <<>>

\* C14: a call that comes to a header that does not decode returns null
\* with the log left after that line, whatever protocol it asked for.
C14_BadHeaderAborts ==
  \A n \in Calls :
     LET c == log_calls[n]
         k == NextStop(c)
     IN (k > 0 /\ ItemAt(k).shape = "badheader")
          => c.kind = "null" /\ c.to = StartOf(k) + 1

\* A call returned null at a header that does not decode although an entry
\* of the protocol it asked for follows.
C14_Witness ==
  \E n \in Calls :
     LET c == log_calls[n]
         k == NextStop(c)
     IN /\ k > 0
        /\ k < ItemCount
        /\ ItemAt(k).shape = "badheader"
        /\ ItemAt(k + 1).shape = "entry"
        /\ ItemAt(k + 1).protocol = c.protocol_type
        /\ c.kind = "null"
        /\ c.to = StartOf(k) + 1

\* Call c returned what a call for its protocol returns when made one line
\* further on.
SameAsAfterLine(c) ==
  LET g == GetLine(log_file, c.from, c.at_eof)
  IN \E junk \in Indeterminate :
        LET r == GetNextFrom(log_file, g.pos, g.eof, c.protocol_type, junk)
        IN /\ c.kind = r.kind
           /\ c.entry = r.entry
           /\ c.to = r.pos
           /\ c.eof = r.eof

\* Call c began on a line that is no header.
BeganOnNonHeader(c) ==
  ~c.at_eof /\ c.from < LineCount /\ NonHeaderLine(c.from + 1)

\* C15: a line that is no header is skipped and ends no read: a call that
\* begins on one returns what the call made after that line returns, every
\* call reads on to the next header it has to stop at, and a call that has
\* no such header before it returns null at end-of-input.
C15_NonHeaderSkipped ==
  \A n \in Calls :
     LET c == log_calls[n]
         k == NextStop(c)
     IN /\ BeganOnNonHeader(c) => SameAsAfterLine(c)
        /\ k > 0 => c.to >= StartOf(k) + 1
        /\ k = 0 => c.kind = "null" /\ c.eof /\ c.to = LineCount

\* A call began on a line of other logging and returned the entry whose
\* header comes after it.
C15_Witness ==
  \E n \in Calls :
     LET c == log_calls[n]
         k == NextStop(c)
     IN /\ BeganOnNonHeader(c)
        /\ k > 0
        /\ StartOf(k) > c.from
        /\ ReturnedEntry(c, ItemAt(k).entry, EndOf(k))

\* C18: a call that comes to a header of its protocol whose payload does not
\* parse returns null, and does not throw.
C18_PayloadFailureIsNull ==
  \A n \in Calls :
     LET c == log_calls[n]
         k == NextStop(c)
     IN (k > 0 /\ ItemAt(k).shape = "badpayload") => c.kind = "null"
====
